---- MODULE Spec2Model ----
(***************************************************************************)
(* Amul stock notifier: the poller (Bot, bot.go) that turns catalog        *)
(* snapshots into stock notifications, and the interactive bot             *)
(* (InteractiveBot, interactive_bot.go) that owns the subscription         *)
(* registry and dispatches notifications to subscribers.                   *)
(*                                                                         *)
(* Time is counted in minutes since a UTC midnight.                        *)
(***************************************************************************)
EXTENDS Integers, Sequences, FiniteSets, TLC

VARIABLES
    subscriptions,      \* InteractiveBot.subscriptions : userID -> UserSubscription
    mutex,              \* InteractiveBot.mutex (sync.RWMutex)
    productStockState,  \* Bot.productStockState : SKU -> inStock
    productDetails,     \* Bot.productDetails : SKU -> ProductInfo
    timezone,           \* AppConfig.Timezone (*time.Location, "nil" when unset)
    now,                \* wall clock, minutes
    cycle,              \* the poller's CheckTargetStock call: position and target set
    lastCycle,          \* observation: how the cycle step just taken ended
    events,             \* observation: dispatcher calls made by the cycle step just taken
    sent,               \* observation: messages that step handed to the gateway
    subscriptionsFile,  \* subscriptions.json, the persisted registry
    handler,            \* the update loop of InteractiveBot.Start: "idle" or "blocked"
    reply,              \* observation: outcome of the command just handled
    fn,                 \* last application of a pure helper (function specifications)
    clock,              \* seconds since the process started (session runs)
    cookieExpiry,       \* Bot.cookieExpiry, in seconds of clock
    lastAPICall,        \* Bot.lastAPICall, in seconds of clock
    apiCallMutex,       \* Bot.apiCallMutex: "none" or the goroutine that holds it
    procs,              \* the goroutines that check stock: position and locals
    alive,              \* the operating-system process is running
    released,           \* observation: when a catalog request was last let through
    notice,             \* observation: what the session step just taken did
    driver,             \* main's goroutine: position, ticker channel, cycles in flight
    saver               \* the saveSubscriptions call in progress: position and data

\* the session manager and the goroutines using it
sessionVars ==
    <<clock, cookieExpiry, lastAPICall, apiCallMutex, procs, alive, released, notice,
      driver, saver>>

vars == <<subscriptions, mutex, productStockState, productDetails, timezone, now,
          cycle, lastCycle, events, sent, subscriptionsFile, handler, reply, fn,
          clock, cookieExpiry, lastAPICall, apiCallMutex, procs, alive, released, notice,
          driver, saver>>

----------------------------------------------------------------------------
(* Bounds of the model *)

\* the clock stops advancing at MaxTime (minutes)
MaxTime == 420
\* catalog snapshots hold at most MaxSnapshotLen products
MaxSnapshotLen == 2

\* recipients (Telegram user ids)
Users == {1, 2}

\* availableProducts (two catalog products) and one SKU outside the catalog
availableProducts == {"DBDCP44_30", "HPPCP01_02"}
UnknownSKUs == {"ZZZ"}
AllSKUs == availableProducts \cup UnknownSKUs

\* the clock starts at 06:30 UTC and advances in steps of TickStep minutes
StartTime == 6 * 60 + 30
TickStep == 30

----------------------------------------------------------------------------
(* Quiet hours *)

quietHourStart == 0
quietHourEnd == 7

\* time.Location as a fixed offset from UTC, in minutes ("nil" is the nil pointer)
Locations == {"UTC", "Asia/Kolkata", "America/Bogota"}
UTCOffset(loc) ==
    CASE loc = "UTC" -> 0
      [] loc = "Asia/Kolkata" -> 330
      [] loc = "America/Bogota" -> -300

\* time.Now().In(loc).Hour()
Hour(loc, t) == ((t + UTCOffset(loc) + 1440) \div 60) % 24

isQuietHours_OffByOne(loc, t) ==
    IF loc = "nil" THEN FALSE
    ELSE Hour(loc, t) >= quietHourStart /\ Hour(loc, t) <= quietHourEnd

isQuietHours(loc, t) ==
    IF loc = "nil" THEN FALSE
    ELSE Hour(loc, t) >= quietHourStart /\ Hour(loc, t) < quietHourEnd

----------------------------------------------------------------------------
(* The subscription registry (InteractiveBot) *)

NoTime == -1

\* A registry slot: exists = FALSE is a missing map key. LastNotification maps a SKU to
\* the minute of the last notification, NoTime when the map has no entry for it.
NoSubscription ==
    [exists |-> FALSE, MonitoredSKUs |-> {}, Location |-> "", StoreCode |-> "",
     NotificationFrequency |-> "", LastNotification |-> [s \in AllSKUs |-> NoTime],
     LastManualCheck |-> NoTime]

\* the frequencies setNotificationFrequency accepts (its freqMap)
freqMap == {"every_check", "every_30_minutes", "hourly", "every_3_hours",
            "every_6_hours", "every_12_hours", "daily", "every_3_days"}

ShouldSendNotification_StrictAfter(sub, sku, t) ==
    IF ~sub.exists THEN FALSE
    ELSE IF sub.NotificationFrequency = "" \/ sub.NotificationFrequency = "every_check" THEN TRUE
    ELSE IF sub.LastNotification[sku] = NoTime THEN TRUE
    ELSE LET since == t - sub.LastNotification[sku] IN
         CASE sub.NotificationFrequency = "every_30_minutes" -> since > 30
           [] sub.NotificationFrequency = "hourly" -> since > 60
           [] sub.NotificationFrequency = "every_3_hours" -> since > 3 * 60
           [] sub.NotificationFrequency = "every_6_hours" -> since > 6 * 60
           [] sub.NotificationFrequency = "every_12_hours" -> since > 12 * 60
           [] sub.NotificationFrequency = "daily" -> since > 24 * 60
           [] sub.NotificationFrequency = "every_3_days" -> since > 72 * 60
           [] OTHER -> TRUE

\* ShouldSendNotification(userID, sku) at time t, sub being subscriptions[userID]
ShouldSendNotification(sub, sku, t) ==
    IF ~sub.exists THEN FALSE
    ELSE IF sub.NotificationFrequency = "" \/ sub.NotificationFrequency = "every_check" THEN TRUE
    ELSE IF sub.LastNotification[sku] = NoTime THEN TRUE
    ELSE LET since == t - sub.LastNotification[sku] IN
         CASE sub.NotificationFrequency = "every_30_minutes" -> since >= 30
           [] sub.NotificationFrequency = "hourly" -> since >= 60
           [] sub.NotificationFrequency = "every_3_hours" -> since >= 3 * 60
           [] sub.NotificationFrequency = "every_6_hours" -> since >= 6 * 60
           [] sub.NotificationFrequency = "every_12_hours" -> since >= 12 * 60
           [] sub.NotificationFrequency = "daily" -> since >= 24 * 60
           [] sub.NotificationFrequency = "every_3_days" -> since >= 72 * 60
           [] OTHER -> TRUE

\* GetAllSubscribedSKUs: the union of every recipient's MonitoredSKUs
GetAllSubscribedSKUs(subs) == UNION {subs[u].MonitoredSKUs : u \in Users}

\* sync.RWMutex: Lock needs no reader and no writer; RLock is refused while a writer
\* holds or waits for the lock.
MutexFree == [readers |-> 0, writer |-> "none"]
CanLock(m) == m.readers = 0 /\ m.writer = "none"
CanRLock(m) == m.writer = "none"

\* UpdateLastNotification(userID, sku): the body run once the write lock is held
UpdateLastNotification(subs, u, sku, t) ==
    IF ~subs[u].exists THEN subs
    ELSE [subs EXCEPT ![u].LastNotification[sku] = t]

\* The subscriber loop of SendStockNotificationToSubscribers, over the map's iteration
\* order ord, with m the mutex as held by the caller (its read lock included) and
\* failing the recipients for whom the gateway's Send returns an error. sendMessage
\* makes one Send and only logs its error. UpdateLastNotification asks for the write
\* lock: it never returns when m cannot be locked, and the loop stops there with the
\* message already handed to the gateway.
RECURSIVE DispatchLoop_StopsAtSkip(_, _, _, _, _, _, _, _)
DispatchLoop_StopsAtSkip(subs, m, sku, isInStock, t, tz, ord, failing) ==
    IF ord = <<>> THEN [subs |-> subs, sent |-> <<>>, blocked |-> FALSE]
    ELSE LET u == Head(ord)
             msg == [to |-> u, sku |-> sku, inStock |-> isInStock,
                     delivered |-> u \notin failing]
         IN  IF ~(subs[u].exists /\ sku \in subs[u].MonitoredSKUs)
               THEN DispatchLoop_StopsAtSkip(subs, m, sku, isInStock, t, tz, Tail(ord), failing)
             ELSE IF ~ShouldSendNotification(subs[u], sku, t)
               THEN [subs |-> subs, sent |-> <<>>, blocked |-> FALSE]
             ELSE IF isQuietHours(tz, t)
               THEN [subs |-> subs, sent |-> <<>>, blocked |-> FALSE]
             ELSE IF ~CanLock(m)
               THEN [subs |-> subs, sent |-> <<msg>>, blocked |-> TRUE]
             ELSE LET r == DispatchLoop_StopsAtSkip(UpdateLastNotification(subs, u, sku, t),
                                                    m, sku, isInStock, t, tz, Tail(ord), failing)
                  IN  [subs |-> r.subs, sent |-> <<msg>> \o r.sent, blocked |-> r.blocked]

RECURSIVE DispatchLoop_AnyRecord(_, _, _, _, _, _, _, _)
DispatchLoop_AnyRecord(subs, m, sku, isInStock, t, tz, ord, failing) ==
    IF ord = <<>> THEN [subs |-> subs, sent |-> <<>>, blocked |-> FALSE]
    ELSE LET u == Head(ord)
             msg == [to |-> u, sku |-> sku, inStock |-> isInStock,
                     delivered |-> u \notin failing]
         IN  IF ~subs[u].exists
               THEN DispatchLoop_AnyRecord(subs, m, sku, isInStock, t, tz, Tail(ord), failing)
             ELSE IF ~ShouldSendNotification(subs[u], sku, t)
               THEN DispatchLoop_AnyRecord(subs, m, sku, isInStock, t, tz, Tail(ord), failing)
             ELSE IF isQuietHours(tz, t)
               THEN DispatchLoop_AnyRecord(subs, m, sku, isInStock, t, tz, Tail(ord), failing)
             ELSE IF ~CanLock(m)
               THEN [subs |-> subs, sent |-> <<msg>>, blocked |-> TRUE]
             ELSE LET r == DispatchLoop_AnyRecord(UpdateLastNotification(subs, u, sku, t),
                                                  m, sku, isInStock, t, tz, Tail(ord), failing)
                  IN  [subs |-> r.subs, sent |-> <<msg>> \o r.sent, blocked |-> r.blocked]

RECURSIVE DispatchLoop(_, _, _, _, _, _, _, _)
DispatchLoop(subs, m, sku, isInStock, t, tz, ord, failing) ==
    IF ord = <<>> THEN [subs |-> subs, sent |-> <<>>, blocked |-> FALSE]
    ELSE LET u == Head(ord)
             msg == [to |-> u, sku |-> sku, inStock |-> isInStock,
                     delivered |-> u \notin failing]
         IN  IF ~(subs[u].exists /\ sku \in subs[u].MonitoredSKUs)
               THEN DispatchLoop(subs, m, sku, isInStock, t, tz, Tail(ord), failing)
             ELSE IF ~ShouldSendNotification(subs[u], sku, t)
               THEN DispatchLoop(subs, m, sku, isInStock, t, tz, Tail(ord), failing)
             ELSE IF isQuietHours(tz, t)
               THEN DispatchLoop(subs, m, sku, isInStock, t, tz, Tail(ord), failing)
             ELSE IF ~CanLock(m)
               THEN [subs |-> subs, sent |-> <<msg>>, blocked |-> TRUE]
             ELSE LET r == DispatchLoop(UpdateLastNotification(subs, u, sku, t),
                                        m, sku, isInStock, t, tz, Tail(ord), failing)
                  IN  [subs |-> r.subs, sent |-> <<msg>> \o r.sent, blocked |-> r.blocked]

\* SendStockNotificationToSubscribers(sku, productInfo, isInStock): takes the read lock
\* for the whole call, returns at once for a SKU outside availableProducts.
Dispatch(subs, m, sku, isInStock, t, tz, ord, failing) ==
    IF sku \notin availableProducts
      THEN [subs |-> subs, sent |-> <<>>, blocked |-> FALSE]
      ELSE DispatchLoop(subs, [m EXCEPT !.readers = @ + 1], sku, isInStock, t, tz, ord,
                        failing)

\* the subscriber loop with a gateway that accepts every message
NotifySubscribers(subs, m, sku, isInStock, t, tz, ord) ==
    DispatchLoop(subs, m, sku, isInStock, t, tz, ord, {})

\* the dispatcher with a gateway that accepts every message
SendStockNotificationToSubscribers(subs, m, sku, isInStock, t, tz, ord) ==
    Dispatch(subs, m, sku, isInStock, t, tz, ord, {})

----------------------------------------------------------------------------
(* The stock state machine (Bot.CheckTargetStock) *)

\* a map slot of productStockState / productDetails: exists = FALSE is a missing key
NoStock == [exists |-> FALSE, inStock |-> FALSE]
NoDetails == [exists |-> FALSE, Available |-> 0]

\* ProductInfo as the catalog API returns it: Available is 1 for an item in stock
AvailableValues == {0, 1}
ProductInfo == [SKU : availableProducts, Available : AvailableValues]

\* the API's data array: products with distinct SKUs, in the order the API lists them
Snapshots ==
    {q \in UNION {[1..n -> ProductInfo] : n \in 0..MaxSnapshotLen} :
        \A i, j \in 1..Len(q) : q[i].SKU = q[j].SKU => i = j}

\* the iteration orders Go may pick for a map with the keys of S
RECURSIVE Orders(_)
Orders(S) ==
    IF S = {} THEN {<<>>}
    ELSE UNION {{<<x>> \o q : q \in Orders(S \ {x})} : x \in S}

\* one call of SendStockNotificationToSubscribers from the cycle, logged in events with
\* the stock state recorded before the cycle touched the SKU
Notify(st, sku, isInStock, prior, m, t, tz, ord) ==
    LET d == SendStockNotificationToSubscribers(st.subs, m, sku, isInStock, t, tz, ord)
    IN  [st EXCEPT !.subs = d.subs,
                   !.events = Append(@, [sku |-> sku, inStock |-> isInStock, prior |-> prior]),
                   !.sent = @ \o d.sent,
                   !.blocked = d.blocked]

currentStockStatus_Always(product) == TRUE

\* currentStockStatus := product.Available == 1
currentStockStatus(product) == product.Available = 1

\* the body of the first loop for one product of the response
ProcessProduct(st, product, monitored, m, t, tz, ord) ==
    IF st.blocked \/ product.SKU \notin monitored THEN st
    ELSE LET sku == product.SKU
             current == currentStockStatus(product)
             previous == st.stock[sku]
             st1 == [st EXCEPT !.details[sku] = [exists |-> TRUE, Available |-> product.Available],
                               !.found = @ \cup {sku}]
             st2 == IF current
                      THEN Notify(st1, sku, TRUE, previous, m, t, tz, ord)
                      ELSE st1
             st3 == IF ~st2.blocked /\ ~current /\ previous.exists /\ previous.inStock
                      THEN Notify(st2, sku, FALSE, previous, m, t, tz, ord)
                      ELSE st2
         IN  IF st3.blocked THEN st3
             ELSE [st3 EXCEPT !.stock[sku] = [exists |-> TRUE, inStock |-> current]]

\* the body of the second loop for one monitored SKU
ProcessMissing(st, sku, monitored, m, t, tz, ord) ==
    IF st.blocked \/ sku \notin monitored \/ sku \in st.found THEN st
    ELSE LET previous == st.stock[sku]
             st1 == [st EXCEPT !.stock[sku] = [exists |-> TRUE, inStock |-> FALSE]]
         IN  IF previous.exists /\ previous.inStock
               THEN Notify(st1, sku, FALSE, previous, m, t, tz, ord)
               ELSE st1

RECURSIVE FirstLoop(_, _, _, _, _, _, _)
FirstLoop(st, data, monitored, m, t, tz, ord) ==
    IF data = <<>> THEN st
    ELSE FirstLoop(ProcessProduct(st, Head(data), monitored, m, t, tz, ord),
                   Tail(data), monitored, m, t, tz, ord)

RECURSIVE SecondLoop(_, _, _, _, _, _, _)
SecondLoop(st, skus, monitored, m, t, tz, ord) ==
    IF skus = <<>> THEN st
    ELSE SecondLoop(ProcessMissing(st, Head(skus), monitored, m, t, tz, ord),
                    Tail(skus), monitored, m, t, tz, ord)

\* CheckTargetStock from the parsed response on: data is the response, skuOrd and ord
\* the iteration orders of monitoredSKUs and of the subscriptions map
ProcessResponse(stock, details, subs, data, monitored, m, t, tz, skuOrd, ord) ==
    LET st0 == [stock |-> stock, details |-> details, subs |-> subs, events |-> <<>>,
                sent |-> <<>>, found |-> {}, blocked |-> FALSE]
    IN  SecondLoop(FirstLoop(st0, data, monitored, m, t, tz, ord),
                   skuOrd, monitored, m, t, tz, ord)

----------------------------------------------------------------------------
(* The session manager: cookie expiry and the rate limit of the catalog API *)

Hours(h) == h * 3600

\* the zero time.Time, long before the process started
ZeroTime == 0 - Hours(24 * 365)

\* Bot.rateLimitDelay, seconds
rateLimitDelay == 5
\* cookieRefreshMargin
cookieRefreshMargin == Hours(90)
\* manualCheckCooldown of checkStockNow, seconds
manualCheckCooldown == 2 * 60

\* the clock advances in steps of TockStep seconds and stops advancing at MaxClock
TockStep == 2
MaxClock == 6

\* time.Since(t)
TimeSince(t) == clock - t

\* time.Now().Add(cookieRefreshMargin).After(bot.cookieExpiry)
NeedsRefresh(expiry) == clock + cookieRefreshMargin > expiry

\* the expiry refreshCookieWithStore returns with a nil error: the Expires attribute of
\* the jsessionid cookie as the server set it (here five days after the process
\* started), a day from now when the attribute does not parse, the zero time when the
\* response carries no such cookie or attribute
RefreshedExpiries == {Hours(120), clock + Hours(24), ZeroTime}

----------------------------------------------------------------------------
(* State after construction (main: InitBot, NewInteractiveBot with no subscriptions
   file, SetInteractiveBot) *)

NoCycle == [pc |-> "idle", monitored |-> {}]
NoLastCycle == [outcome |-> "none", monitored |-> {}, snapshot |-> <<>>]
NoReply == [kind |-> "none", user |-> 0, sku |-> "", result |-> "", before |-> {}]
NoFn == [op |-> "none"]

\* time.LoadLocation(name): the empty name is UTC, a name of the zone database is that
\* zone, any other name is an error and leaves the nil location
LoadLocation(name) ==
    IF name = "" THEN "UTC"
    ELSE IF name \in Locations THEN name
    ELSE "nil"

\* values of the --timezone flag in the system runs: not given (the flag's default, the
\* empty string) and a name that is no zone
TimezoneFlags == {"", "Mars/Olympus"}

\* the values ParseConfiguration can leave in AppConfig.Timezone in the system runs
ConfiguredTimezones == {LoadLocation(name) : name \in TimezoneFlags}

\* the goroutines that check stock: the poller (main, in CheckTargetStock) and one
\* on-demand check (go performManualStockCheck) at a time
Procs == {"poller", "manual"}
\* users: the recipients whose records GetUserSubscriptions handed to the goroutine
NoProc == [pc |-> "idle", user |-> 0, wakeAt |-> 0, users |-> {}]
NoNotice == [kind |-> "none", to |-> 0, at |-> 0]
\* main before its first CheckTargetStock: no ticker yet, no cycle in flight
NoDriver == [pc |-> "start", ticks |-> 0, running |-> 0]
\* no saveSubscriptions call in progress
NoSaver == [pc |-> "none", data |-> [u \in Users |-> NoSubscription]]

\* everything but the session InitBot obtained
Constructed ==
    /\ subscriptions = [u \in Users |-> NoSubscription]
    /\ subscriptionsFile = [u \in Users |-> NoSubscription]
    /\ mutex = MutexFree
    /\ handler = "idle"
    /\ productStockState = [s \in AllSKUs |-> NoStock]
    /\ productDetails = [s \in AllSKUs |-> NoDetails]
    /\ timezone \in ConfiguredTimezones
    /\ now = StartTime
    /\ cycle = NoCycle
    /\ lastCycle = NoLastCycle
    /\ events = <<>>
    /\ sent = <<>>
    /\ reply = NoReply
    /\ fn = NoFn
    /\ clock = 0
    /\ lastAPICall = ZeroTime
    /\ apiCallMutex = "none"
    /\ procs = [p \in Procs |-> NoProc]
    /\ alive = TRUE
    /\ released = ZeroTime
    /\ notice = NoNotice
    /\ driver = NoDriver
    /\ saver = NoSaver

\* InitBot got a session that outlasts the run
Init ==
    /\ Constructed
    /\ cookieExpiry = Hours(120)

----------------------------------------------------------------------------
(* Commands of the interactive bot. The update loop handles one update at a time; a
   command that needs the registry lock while it cannot be had blocks the loop. *)

Reply(kind, u, sku, result) ==
    [kind |-> kind, user |-> u, sku |-> sku, result |-> result,
     before |-> subscriptions[u].MonitoredSKUs]

\* a command leaves the poller alone; the observation of the last cycle step is over
PollerUntouched ==
    /\ UNCHANGED <<productStockState, productDetails, cycle>>
    /\ UNCHANGED sessionVars
    /\ lastCycle' = NoLastCycle
    /\ events' = <<>>
    /\ sent' = <<>>

\* stateMap, and strings.Title of the code with "_" replaced by " " outside it
StateName(location) ==
    CASE location = "gujarat" -> "Gujarat"
      [] location = "tamil_nadu" -> "Tamil Nadu"
      [] location = "india_north" -> "India North"
      [] OTHER -> location

LocationInputs == {"gujarat", "custom"}
FrequencyInputs == {"daily", "bogus"}

\* setUserLocation(userID, username, location)
setUserLocation(u, location) ==
    /\ handler = "idle"
    /\ IF location = "custom"
         THEN /\ reply' = Reply("setUserLocation", u, "", "customStateInput")
              /\ UNCHANGED <<subscriptions, subscriptionsFile>>
         ELSE /\ CanLock(mutex)
              /\ subscriptions' =
                   [subscriptions EXCEPT ![u] =
                      IF ~@.exists
                        THEN [NoSubscription EXCEPT !.exists = TRUE,
                                                    !.Location = StateName(location),
                                                    !.StoreCode = location,
                                                    !.NotificationFrequency = "every_30_minutes"]
                        ELSE [@ EXCEPT !.Location = StateName(location),
                                       !.StoreCode = location]]
              /\ subscriptionsFile' = subscriptions'
              /\ reply' = Reply("setUserLocation", u, "", "ok")
    /\ UNCHANGED <<mutex, handler, timezone, now, fn>>
    /\ PollerUntouched

subscribeToProduct_NoLocationGate(u, sku) ==
    /\ handler = "idle"
    /\ IF sku \notin availableProducts
         THEN /\ reply' = Reply("subscribeToProduct", u, sku, "productNotFound")
              /\ UNCHANGED <<subscriptions, subscriptionsFile>>
         ELSE /\ CanLock(mutex)
              /\ LET sub == IF subscriptions[u].exists THEN subscriptions[u]
                             ELSE [NoSubscription EXCEPT !.exists = TRUE]
                 IN  IF sku \in sub.MonitoredSKUs
                       THEN /\ subscriptions' = [subscriptions EXCEPT ![u] = sub]
                            /\ reply' = Reply("subscribeToProduct", u, sku, "alreadySubscribed")
                            /\ UNCHANGED subscriptionsFile
                       ELSE /\ subscriptions' =
                                 [subscriptions EXCEPT ![u] =
                                    [sub EXCEPT !.MonitoredSKUs = @ \cup {sku}]]
                            /\ subscriptionsFile' = subscriptions'
                            /\ reply' = Reply("subscribeToProduct", u, sku, "ok")
    /\ UNCHANGED <<mutex, handler, timezone, now, fn>>
    /\ PollerUntouched

\* subscribeToProduct(userID, username, sku)
subscribeToProduct(u, sku) ==
    /\ handler = "idle"
    /\ IF sku \notin availableProducts
         THEN /\ reply' = Reply("subscribeToProduct", u, sku, "productNotFound")
              /\ UNCHANGED <<subscriptions, subscriptionsFile>>
         ELSE /\ CanLock(mutex)
              /\ LET sub == IF subscriptions[u].exists THEN subscriptions[u]
                             ELSE [NoSubscription EXCEPT !.exists = TRUE]
                 IN  IF sub.Location = ""
                       THEN /\ subscriptions' = [subscriptions EXCEPT ![u] = sub]
                            /\ reply' = Reply("subscribeToProduct", u, sku, "locationRequired")
                            /\ UNCHANGED subscriptionsFile
                     ELSE IF sku \in sub.MonitoredSKUs
                       THEN /\ subscriptions' = [subscriptions EXCEPT ![u] = sub]
                            /\ reply' = Reply("subscribeToProduct", u, sku, "alreadySubscribed")
                            /\ UNCHANGED subscriptionsFile
                       ELSE /\ subscriptions' =
                                 [subscriptions EXCEPT ![u] =
                                    [sub EXCEPT !.MonitoredSKUs = @ \cup {sku}]]
                            /\ subscriptionsFile' = subscriptions'
                            /\ reply' = Reply("subscribeToProduct", u, sku, "ok")
    /\ UNCHANGED <<mutex, handler, timezone, now, fn>>
    /\ PollerUntouched

unsubscribeFromProduct_ClearsAll(u, sku) ==
    /\ handler = "idle"
    /\ IF sku \notin availableProducts
         THEN /\ reply' = Reply("unsubscribeFromProduct", u, sku, "productNotFound")
              /\ UNCHANGED <<subscriptions, subscriptionsFile>>
         ELSE /\ CanLock(mutex)
              /\ IF ~subscriptions[u].exists \/ sku \notin subscriptions[u].MonitoredSKUs
                   THEN /\ reply' = Reply("unsubscribeFromProduct", u, sku, "notSubscribed")
                        /\ UNCHANGED <<subscriptions, subscriptionsFile>>
                   ELSE /\ subscriptions' = [subscriptions EXCEPT ![u].MonitoredSKUs = {}]
                        /\ subscriptionsFile' = subscriptions'
                        /\ reply' = Reply("unsubscribeFromProduct", u, sku, "ok")
    /\ UNCHANGED <<mutex, handler, timezone, now, fn>>
    /\ PollerUntouched

\* unsubscribeFromProduct(userID, sku)
unsubscribeFromProduct(u, sku) ==
    /\ handler = "idle"
    /\ IF sku \notin availableProducts
         THEN /\ reply' = Reply("unsubscribeFromProduct", u, sku, "productNotFound")
              /\ UNCHANGED <<subscriptions, subscriptionsFile>>
         ELSE /\ CanLock(mutex)
              /\ IF ~subscriptions[u].exists \/ sku \notin subscriptions[u].MonitoredSKUs
                   THEN /\ reply' = Reply("unsubscribeFromProduct", u, sku, "notSubscribed")
                        /\ UNCHANGED <<subscriptions, subscriptionsFile>>
                   ELSE /\ subscriptions' = [subscriptions EXCEPT ![u].MonitoredSKUs = @ \ {sku}]
                        /\ subscriptionsFile' = subscriptions'
                        /\ reply' = Reply("unsubscribeFromProduct", u, sku, "ok")
    /\ UNCHANGED <<mutex, handler, timezone, now, fn>>
    /\ PollerUntouched

\* setNotificationFrequency(userID, frequency)
setNotificationFrequency(u, frequency) ==
    /\ handler = "idle"
    /\ IF frequency \notin freqMap
         THEN /\ reply' = Reply("setNotificationFrequency", u, "", "invalidFrequency")
              /\ UNCHANGED <<subscriptions, subscriptionsFile>>
         ELSE /\ CanLock(mutex)
              /\ subscriptions' =
                   [subscriptions EXCEPT ![u] =
                      IF ~@.exists
                        THEN [NoSubscription EXCEPT !.exists = TRUE,
                                                    !.NotificationFrequency = frequency]
                        ELSE [@ EXCEPT !.NotificationFrequency = frequency]]
              /\ subscriptionsFile' = subscriptions'
              /\ reply' = Reply("setNotificationFrequency", u, "", "ok")
    /\ UNCHANGED <<mutex, handler, timezone, now, fn>>
    /\ PollerUntouched

\* a command that asks for the registry lock while the lock cannot be had: the
\* update loop waits in Lock and handles no further update
HandlerBlocks ==
    /\ handler = "idle"
    /\ ~CanLock(mutex)
    /\ handler' = "blocked"
    /\ reply' = NoReply
    /\ UNCHANGED <<subscriptions, subscriptionsFile, mutex, timezone, now, fn>>
    /\ PollerUntouched

----------------------------------------------------------------------------
(* The poll cycle: main calls CheckTargetStock once at startup and then on every tick
   of the ticker, one call at a time *)

\* CheckTargetStock up to the catalog request: the target set is read from the registry
\* under the read lock; with no subscribed SKU the cycle returns at once
StartCycle ==
    /\ cycle.pc = "idle"
    /\ CanRLock(mutex)
    /\ LET monitoredSKUs == GetAllSubscribedSKUs(subscriptions)
       IN  IF monitoredSKUs = {}
             THEN /\ cycle' = NoCycle
                  /\ lastCycle' = [NoLastCycle EXCEPT !.outcome = "noSubscriptions"]
             ELSE /\ cycle' = [pc |-> "fetching", monitored |-> monitoredSKUs]
                  /\ lastCycle' = [NoLastCycle EXCEPT !.outcome = "started",
                                                      !.monitored = monitoredSKUs]
    /\ events' = <<>>
    /\ sent' = <<>>
    /\ reply' = NoReply
    /\ UNCHANGED <<subscriptions, subscriptionsFile, handler, mutex>>
    /\ UNCHANGED <<productStockState, productDetails, timezone, now, fn>>
    /\ UNCHANGED sessionVars

FetchFailed_AssumesEmptyCatalog ==
    /\ cycle.pc = "fetching"
    /\ cycle' = NoCycle
    /\ lastCycle' = [NoLastCycle EXCEPT !.outcome = "fetchFailed",
                                        !.monitored = cycle.monitored]
    /\ productStockState' =
         [s \in AllSKUs |-> IF s \in cycle.monitored
                              THEN [exists |-> TRUE, inStock |-> FALSE]
                              ELSE productStockState[s]]
    /\ events' = <<>>
    /\ sent' = <<>>
    /\ reply' = NoReply
    /\ UNCHANGED <<subscriptions, subscriptionsFile, handler, mutex>>
    /\ UNCHANGED <<productDetails, timezone, now, fn>>
    /\ UNCHANGED sessionVars

\* the catalog request fails: transport error, unreadable body, non-200 status or a
\* body that is not the expected JSON; CheckTargetStock logs and returns
FetchFailed ==
    /\ cycle.pc = "fetching"
    /\ cycle' = NoCycle
    /\ lastCycle' = [NoLastCycle EXCEPT !.outcome = "fetchFailed",
                                        !.monitored = cycle.monitored]
    /\ events' = <<>>
    /\ sent' = <<>>
    /\ reply' = NoReply
    /\ UNCHANGED <<subscriptions, subscriptionsFile, handler, mutex>>
    /\ UNCHANGED <<productStockState, productDetails, timezone, now, fn>>
    /\ UNCHANGED sessionVars

\* the catalog request succeeds with the response data: both loops of CheckTargetStock
\* run. A notification that reaches UpdateLastNotification leaves the poller waiting
\* for the write lock with its own read lock held.
FinishCycle(data, skuOrd, ord) ==
    /\ cycle.pc = "fetching"
    /\ CanRLock(mutex)
    /\ LET r == ProcessResponse(productStockState, productDetails, subscriptions, data,
                                cycle.monitored, mutex, now, timezone, skuOrd, ord)
       IN  /\ productStockState' = r.stock
           /\ productDetails' = r.details
           /\ subscriptions' = r.subs
           /\ events' = r.events
           /\ sent' = r.sent
           /\ cycle' = IF r.blocked THEN [cycle EXCEPT !.pc = "blocked"] ELSE NoCycle
           /\ lastCycle' = [outcome |-> IF r.blocked THEN "blocked" ELSE "done",
                            monitored |-> cycle.monitored, snapshot |-> data]
           /\ mutex' = IF r.blocked
                         THEN [readers |-> mutex.readers + 1, writer |-> "waiting"]
                         ELSE mutex
    /\ reply' = NoReply
    /\ UNCHANGED <<subscriptionsFile, handler, timezone, now, fn>>
    /\ UNCHANGED sessionVars

\* time passes
Tick ==
    /\ now + TickStep <= MaxTime
    /\ now' = now + TickStep
    /\ lastCycle' = NoLastCycle
    /\ events' = <<>>
    /\ sent' = <<>>
    /\ reply' = NoReply
    /\ UNCHANGED <<subscriptions, subscriptionsFile, mutex, handler, productStockState,
                   productDetails, timezone, cycle, fn>>
    /\ UNCHANGED sessionVars

\* The system runs follow the poller together with the commands of the recipients in
\* ActiveUsers; the registry runs (SpecRegistry) take the commands of every recipient.
ActiveUsers == {1}

Next ==
    \/ \E u \in ActiveUsers, location \in LocationInputs : setUserLocation(u, location)
    \/ \E u \in ActiveUsers, sku \in AllSKUs : subscribeToProduct(u, sku)
    \/ \E u \in ActiveUsers, sku \in AllSKUs : unsubscribeFromProduct(u, sku)
    \/ HandlerBlocks
    \/ StartCycle
    \/ FetchFailed
    \/ \E data \in Snapshots, skuOrd \in Orders(cycle.monitored),
          ord \in Orders({u \in Users : subscriptions[u].exists}) :
          FinishCycle(data, skuOrd, ord)
    \/ Tick

Spec == Init /\ [][Next]_vars

----------------------------------------------------------------------------
(* The registry on its own: the commands of every recipient, no poller *)

NextRegistry ==
    \/ \E u \in Users, location \in LocationInputs : setUserLocation(u, location)
    \/ \E u \in Users, sku \in AllSKUs : subscribeToProduct(u, sku)
    \/ \E u \in Users, sku \in AllSKUs : unsubscribeFromProduct(u, sku)
    \/ \E u \in Users, frequency \in FrequencyInputs : setNotificationFrequency(u, frequency)

SpecRegistry == Init /\ [][NextRegistry]_vars

----------------------------------------------------------------------------
(* The pure helpers applied to bounded inputs *)

\* minutes elapsed since the last notification, around every interval of the code
ElapsedInputs == {10, 29, 30, 31, 59, 60, 61, 90, 179, 180, 181, 359, 360, 361,
                  719, 720, 721, 1439, 1440, 1441, 4319, 4320, 4321}
\* stored frequencies: those of freqMap, the empty string and an unknown one
StoredFrequencies == freqMap \cup {"", "bogus"}
\* instants: the first and the last minute of every hour of a day
Instants == {h * 60 + m : h \in 0..23, m \in {0, 59}}

\* ShouldSendNotification for a recipient whose record (when it exists) has the stored
\* frequency and was last notified about the SKU at minute 0, or never
ApplyShouldSendNotification(exists, frequency, notified, t) ==
    /\ LET sub == [NoSubscription EXCEPT
                      !.exists = exists,
                      !.NotificationFrequency = frequency,
                      !.LastNotification["DBDCP44_30"] = IF notified THEN 0 ELSE NoTime]
       IN  fn' = [op |-> "ShouldSendNotification", exists |-> exists,
                  frequency |-> frequency, notified |-> notified, elapsed |-> t,
                  result |-> ShouldSendNotification(sub, "DBDCP44_30", t)]
    /\ UNCHANGED <<subscriptions, mutex, productStockState, productDetails, timezone, now,
                   cycle, lastCycle, events, sent, subscriptionsFile, handler, reply>>
    /\ UNCHANGED sessionVars

ApplyIsQuietHours(loc, t) ==
    /\ fn' = [op |-> "isQuietHours", loc |-> loc, t |-> t, result |-> isQuietHours(loc, t)]
    /\ UNCHANGED <<subscriptions, mutex, productStockState, productDetails, timezone, now,
                   cycle, lastCycle, events, sent, subscriptionsFile, handler, reply>>
    /\ UNCHANGED sessionVars

NextFn ==
    \/ \E exists \in BOOLEAN, frequency \in StoredFrequencies, notified \in BOOLEAN,
          t \in ElapsedInputs : ApplyShouldSendNotification(exists, frequency, notified, t)
    \/ \E loc \in {"nil"} \cup Locations, t \in Instants : ApplyIsQuietHours(loc, t)

SpecFn == Init /\ [][NextFn]_vars

----------------------------------------------------------------------------
(* Properties of the poll cycle (specification Spec) *)

\* what a response says about a SKU
PresentIn(data, sku) == \E i \in 1..Len(data) : data[i].SKU = sku
AvailableIn(data, sku) == \E i \in 1..Len(data) : data[i].SKU = sku /\ data[i].Available = 1

\* the cycle step just taken obtained a snapshot
CycleRan == lastCycle.outcome \in {"done", "blocked"}
\* a step in which CheckTargetStock processes a snapshot
CycleStep == cycle.pc = "fetching" /\ lastCycle'.outcome \in {"done", "blocked"}

RecordedTrue(rec) == rec.exists /\ rec.inStock

C2_AlertEveryCycle ==
    CycleRan =>
        \A sku \in lastCycle.monitored :
            AvailableIn(lastCycle.snapshot, sku) =>
                \E i \in 1..Len(events) : events[i].sku = sku /\ events[i].inStock

\* C3: for a target item missing from the snapshot, a recorded state of true gives
\* exactly one out-of-stock event in the cycle, any other recorded state gives no event;
\* either way the state is recorded as false (so later cycles emit nothing).
C3_MissingFromSnapshot ==
    [][CycleStep =>
        \A sku \in cycle.monitored :
            ~PresentIn(lastCycle'.snapshot, sku) =>
                /\ productStockState'[sku] = [exists |-> TRUE, inStock |-> FALSE]
                /\ LET n == Cardinality({i \in 1..Len(events') : events'[i].sku = sku})
                   IN  IF RecordedTrue(productStockState[sku])
                         THEN n = 1 /\ \E i \in 1..Len(events') :
                                          events'[i].sku = sku /\ ~events'[i].inStock
                         ELSE n = 0]_vars

\* C4: for a target item the snapshot shows unavailable, a recorded state of true gives
\* an out-of-stock event, a recorded state of false or unknown gives no event.
C4_PresentUnavailable ==
    [][CycleStep =>
        \A sku \in cycle.monitored :
            (PresentIn(lastCycle'.snapshot, sku) /\ ~AvailableIn(lastCycle'.snapshot, sku)) =>
                IF RecordedTrue(productStockState[sku])
                  THEN \E i \in 1..Len(events') : events'[i].sku = sku /\ ~events'[i].inStock
                  ELSE \A i \in 1..Len(events') : events'[i].sku # sku]_vars

\* C5: after a cycle that obtained a snapshot the stock record of every target SKU is
\* the availability the snapshot gives it (false when missing), and the stock record of
\* every other SKU is unchanged.
C5_StockRecordFollowsSnapshot ==
    [][CycleStep =>
        \A sku \in AllSKUs :
            IF sku \in cycle.monitored
              THEN productStockState'[sku] =
                     [exists |-> TRUE, inStock |-> AvailableIn(lastCycle'.snapshot, sku)]
              ELSE productStockState'[sku] = productStockState[sku]]_vars

\* C6: a cycle whose catalog fetch fails leaves every stock record and every
\* product-detail entry as before, emits no event and sends no notification.
C6_FetchFailureChangesNothing ==
    [][(cycle.pc = "fetching" /\ lastCycle'.outcome = "fetchFailed") =>
        /\ productStockState' = productStockState
        /\ productDetails' = productDetails
        /\ subscriptions' = subscriptions
        /\ events' = <<>>
        /\ sent' = <<>>]_vars

\* a failed fetch in a cycle whose targets have a state and details on record
C6_Witness ==
    /\ lastCycle.outcome = "fetchFailed"
    /\ \E sku \in lastCycle.monitored :
          RecordedTrue(productStockState[sku]) /\ productDetails[sku].exists

----------------------------------------------------------------------------
(* Properties of the registry commands (specification SpecRegistry). A step whose
   reply' has the kind of a command is a step of that command: every other step
   clears reply. *)

HasLocation(sub) == sub.exists /\ sub.Location # ""

\* C7: subscribing to a catalog product answers locationRequired and leaves the
\* recipient's subscribed set unchanged while the recipient has no location; with a
\* location (which a completed setUserLocation gives) it adds the product and answers
\* ok, and answers alreadySubscribed with the set unchanged when the product is in it.
C7_Subscribe ==
    [][/\ (reply'.kind = "setUserLocation" /\ reply'.result = "ok") =>
             HasLocation(subscriptions'[reply'.user])
       /\ (reply'.kind = "subscribeToProduct" /\ reply'.sku \in availableProducts) =>
             LET u == reply'.user
                 sku == reply'.sku
                 before == subscriptions[u].MonitoredSKUs
                 after == subscriptions'[u].MonitoredSKUs
             IN  IF ~HasLocation(subscriptions[u])
                   THEN reply'.result = "locationRequired" /\ after = before
                 ELSE IF sku \notin before
                   THEN reply'.result = "ok" /\ after = before \cup {sku}
                 ELSE reply'.result = "alreadySubscribed" /\ after = before]_vars

\* a second subscription to a product, answered alreadySubscribed
C7_Witness ==
    /\ reply.kind = "subscribeToProduct"
    /\ reply.result = "alreadySubscribed"
    /\ reply.sku \in subscriptions[reply.user].MonitoredSKUs

\* C8: unsubscribing from a catalog product removes it from the recipient's subscribed
\* set and answers ok when it is in the set; otherwise (no record of the recipient, or
\* product not in the set) it answers notSubscribed and the registry is unchanged.
\* Unsubscribing right after a successful subscription to the same product gives back
\* the subscribed set from before the subscription.
C8_Unsubscribe ==
    [][(reply'.kind = "unsubscribeFromProduct" /\ reply'.sku \in availableProducts) =>
          LET u == reply'.user
              sku == reply'.sku
              before == subscriptions[u].MonitoredSKUs
              after == subscriptions'[u].MonitoredSKUs
          IN  /\ IF subscriptions[u].exists /\ sku \in before
                   THEN /\ reply'.result = "ok"
                        /\ after = before \ {sku}
                        /\ \A v \in Users \ {u} : subscriptions'[v] = subscriptions[v]
                   ELSE /\ reply'.result = "notSubscribed"
                        /\ subscriptions' = subscriptions
                        /\ subscriptionsFile' = subscriptionsFile
              /\ (/\ reply.kind = "subscribeToProduct"
                  /\ reply.result = "ok"
                  /\ reply.user = u
                  /\ reply.sku = sku) => after = reply.before]_vars

\* a product removed from a subscribed set that keeps another product
C8_Witness ==
    /\ reply.kind = "unsubscribeFromProduct"
    /\ reply.result = "ok"
    /\ subscriptions[reply.user].MonitoredSKUs = reply.before \ {reply.sku}
    /\ subscriptions[reply.user].MonitoredSKUs # {}

----------------------------------------------------------------------------
(* Properties of the pure helpers (specification SpecFn) *)

\* the minimum interval of a frequency, in minutes
MinimumInterval(frequency) ==
    CASE frequency = "every_30_minutes" -> 30
      [] frequency = "hourly" -> 60
      [] frequency = "every_3_hours" -> 180
      [] frequency = "every_6_hours" -> 360
      [] frequency = "every_12_hours" -> 720
      [] frequency = "daily" -> 1440
      [] frequency = "every_3_days" -> 4320

\* C9: for an existing subscription ShouldSendNotification is true when the frequency
\* is unset or every_check; otherwise true when the SKU has no last notification;
\* otherwise true exactly when the time since the last notification is at least the
\* frequency's minimum interval. Hourly gives true after 90 minutes, false after 10.
C9_ShouldNotify ==
    (fn.op = "ShouldSendNotification" /\ fn.exists /\ fn.frequency \in freqMap \cup {""}) =>
        /\ fn.result =
             IF fn.frequency \in {"", "every_check"} THEN TRUE
             ELSE IF ~fn.notified THEN TRUE
             ELSE fn.elapsed >= MinimumInterval(fn.frequency)
        /\ (fn.frequency = "hourly" /\ fn.notified /\ fn.elapsed = 90) => fn.result
        /\ (fn.frequency = "hourly" /\ fn.notified /\ fn.elapsed = 10) => ~fn.result

\* hourly, notified 10 minutes ago: not yet
C9_Witness ==
    /\ fn.op = "ShouldSendNotification"
    /\ fn.exists
    /\ fn.frequency = "hourly"
    /\ fn.notified
    /\ fn.elapsed = 10
    /\ ~fn.result

\* C10: isQuietHours is true exactly when a location is configured and the local time
\* of day in it is from 00:00 up to, not including, 07:00; with a nil location it is
\* false at every instant.
C10_QuietHours ==
    fn.op = "isQuietHours" =>
        /\ fn.result = (/\ fn.loc # "nil"
                        /\ (fn.t + UTCOffset(fn.loc) + 1440) % 1440 < 7 * 60)
        /\ fn.loc = "nil" => ~fn.result

\* 19:00 UTC is 00:30 in Asia/Kolkata: quiet
C10_Witness ==
    /\ fn.op = "isQuietHours"
    /\ fn.loc = "Asia/Kolkata"
    /\ fn.t = 19 * 60
    /\ fn.result

----------------------------------------------------------------------------
(* Quiet hours and the configuration (specification Spec) *)

\* recipient u is due a message about sku at the current time
Eligible(u, sku) ==
    /\ subscriptions[u].exists
    /\ sku \in subscriptions[u].MonitoredSKUs
    /\ ShouldSendNotification(subscriptions[u], sku, now)

\* the cycle step just taken returned and left an eligible recipient of one of its
\* events without a message
Suppressed ==
    /\ lastCycle.outcome = "done"
    /\ \E i \in 1..Len(events), u \in Users :
          /\ Eligible(u, events[i].sku)
          /\ \A k \in 1..Len(sent) : ~(sent[k].to = u /\ sent[k].sku = events[i].sku)

\* C11: a program started without a --timezone flag (or with an empty one) never
\* suppresses a notification, at any hour.
C11_NoFlagNoQuietHours == (timezone = LoadLocation("")) => ~Suppressed

----------------------------------------------------------------------------
(* The record of the last notification (specification Spec) *)

\* C14: during a dispatch the recipient's LastNotification entry for the item is set
\* (to the time of the dispatch) after a message to the recipient has been delivered,
\* and is left as it was for a recipient that got no message.
C14_LastNotificationFollowsDelivery ==
    [][CycleStep =>
        \A u \in Users, sku \in availableProducts :
            IF \E k \in 1..Len(sent') : sent'[k].to = u /\ sent'[k].sku = sku
              THEN subscriptions'[u].LastNotification[sku] = now
              ELSE subscriptions'[u].LastNotification[sku] =
                     subscriptions[u].LastNotification[sku]]_vars

----------------------------------------------------------------------------
(* The daily subscriber: one recipient sets a location, chooses the daily frequency
   and subscribes to one product, next to the poller *)

ScenarioUser == 1
ScenarioSKU == "DBDCP44_30"

NextDaily ==
    \/ setUserLocation(ScenarioUser, "gujarat")
    \/ setNotificationFrequency(ScenarioUser, "daily")
    \/ subscribeToProduct(ScenarioUser, ScenarioSKU)
    \/ StartCycle
    \/ \E data \in Snapshots, skuOrd \in Orders(cycle.monitored),
          ord \in Orders({u \in Users : subscriptions[u].exists}) :
          FinishCycle(data, skuOrd, ord)
    \/ Tick

SpecDaily == Init /\ [][NextDaily]_vars

\* the recipient of the scenario: location set, frequency daily, subscribed to the
\* product and not yet notified about it
DailySubscriber ==
    /\ HasLocation(subscriptions[ScenarioUser])
    /\ subscriptions[ScenarioUser].NotificationFrequency = "daily"
    /\ ScenarioSKU \in subscriptions[ScenarioUser].MonitoredSKUs
    /\ subscriptions[ScenarioUser].LastNotification[ScenarioSKU] = NoTime

\* C16: for the daily subscriber a cycle that finds the product unavailable (and not
\* recorded in stock) sends nothing; a cycle outside quiet hours that finds it
\* available sends the recipient exactly one notification, sets the recipient's
\* LastNotification entry to the time of the cycle and returns, so that later cycles
\* can run.
C16_DailyScenario ==
    [][(CycleStep /\ DailySubscriber /\ ScenarioSKU \in cycle.monitored) =>
        /\ (/\ ~AvailableIn(lastCycle'.snapshot, ScenarioSKU)
            /\ ~RecordedTrue(productStockState[ScenarioSKU])) => sent' = <<>>
        /\ (/\ AvailableIn(lastCycle'.snapshot, ScenarioSKU)
            /\ ~isQuietHours(timezone, now)) =>
              /\ sent' = <<[to |-> ScenarioUser, sku |-> ScenarioSKU, inStock |-> TRUE,
                           delivered |-> TRUE]>>
              /\ subscriptions'[ScenarioUser].LastNotification[ScenarioSKU] = now
              /\ lastCycle'.outcome = "done"
              /\ cycle'.pc = "idle"]_vars

----------------------------------------------------------------------------
(* The dispatcher applied to bounded inputs: registries as a subscriptions file can
   load them, gateway failures, both iteration orders *)

\* the clock readings of the dispatcher runs: 06:30 and 07:00 UTC
DispatchTimes == {StartTime, StartTime + TickStep}
\* last notifications on record: none, 90 minutes and 10 minutes before 06:30
DispatchLastNotified == {NoTime, StartTime - 90, StartTime - 10}
DispatchFrequencies == {"every_check", "hourly"}

\* the records a recipient can have, about the one product of the call
DispatchRecords ==
    {NoSubscription} \cup
    {[NoSubscription EXCEPT !.exists = TRUE, !.Location = "Gujarat",
                            !.StoreCode = "gujarat",
                            !.MonitoredSKUs = skus,
                            !.NotificationFrequency = frequency,
                            !.LastNotification[ScenarioSKU] = notified] :
        skus \in {{}, {ScenarioSKU}}, frequency \in DispatchFrequencies,
        notified \in DispatchLastNotified}

\* SendStockNotificationToSubscribers(sku, productInfo, true) called by the poller (the
\* registry lock free) at time t
ApplyDispatch(subs, sku, t, tz, ord, failing) ==
    /\ fn = NoFn
    /\ fn' = [op |-> "Dispatch", subs |-> subs, sku |-> sku, t |-> t, tz |-> tz,
              ord |-> ord, failing |-> failing,
              result |-> Dispatch(subs, MutexFree, sku, TRUE, t, tz, ord, failing)]
    /\ UNCHANGED <<subscriptions, mutex, productStockState, productDetails, timezone, now,
                   cycle, lastCycle, events, sent, subscriptionsFile, handler, reply>>
    /\ UNCHANGED sessionVars

NextDispatch ==
    \E subs \in [Users -> DispatchRecords], sku \in {ScenarioSKU} \cup UnknownSKUs,
       t \in DispatchTimes, tz \in ConfiguredTimezones, ord \in Orders(Users),
       failing \in SUBSET Users :
        ApplyDispatch(subs, sku, t, tz, ord, failing)

SpecDispatch == Init /\ [][NextDispatch]_vars

\* the attempts the dispatcher call made to deliver to recipient u
Attempts(u) == SelectSeq(fn.result.sent, LAMBDA msg : msg.to = u)

\* recipient u is subscribed to the product of the call
Subscribed(u) == fn.subs[u].exists /\ fn.sku \in fn.subs[u].MonitoredSKUs
\* the call skips u: it is quiet hours, or ShouldSendNotification is false
Skips(u) ==
    /\ Subscribed(u)
    /\ \/ isQuietHours(fn.tz, fn.t)
       \/ ~ShouldSendNotification(fn.subs[u], fn.sku, fn.t)
\* u is due a message
Due(u) ==
    /\ Subscribed(u)
    /\ ~isQuietHours(fn.tz, fn.t)
    /\ ShouldSendNotification(fn.subs[u], fn.sku, fn.t)

\* C13: delivery to a recipient is attempted until the first success or until 3
\* attempts have failed: every attempt but the last failed, and the last attempt either
\* succeeded or was the third.
C13_RetryUntilSuccess ==
    fn.op = "Dispatch" =>
        \A u \in Users :
            LET a == Attempts(u)
            IN  a # <<>> =>
                  /\ Len(a) <= 3
                  /\ \A k \in 1..(Len(a) - 1) : ~a[k].delivered
                  /\ a[Len(a)].delivered \/ Len(a) = 3

----------------------------------------------------------------------------
(* On-demand checks and the session manager. The session runs follow every goroutine
   that checks stock from its start to the moment its catalog request has been made:
   checkCookie, enforceRateLimit, the request, and for an on-demand check the notice
   with the results. What CheckTargetStock does with the response is the poll cycle
   above. *)

RegistryUntouched == UNCHANGED <<subscriptionsFile, mutex, handler>>
CycleUntouched ==
    UNCHANGED <<productStockState, productDetails, cycle, lastCycle, events, sent,
                timezone, now, fn, driver, saver>>

InCooldown_Never(sub) == FALSE

\* time.Since(subscription.LastManualCheck) < manualCheckCooldown; a LastManualCheck
\* never stamped is the zero time, long ago
InCooldown(sub) ==
    /\ sub.LastManualCheck # NoTime
    /\ TimeSince(sub.LastManualCheck) < manualCheckCooldown

\* checkStockNow(userID): refuses without subscriptions and within the cooldown, else
\* stamps LastManualCheck, answers that the check is running and starts
\* performManualStockCheck in a goroutine of its own
checkStockNow(u) ==
    /\ alive
    /\ handler = "idle"
    /\ CanRLock(mutex)
    /\ LET sub == subscriptions[u]
       IN  IF ~sub.exists \/ sub.MonitoredSKUs = {}
             THEN /\ reply' = Reply("checkStockNow", u, "", "noSubscriptions")
                  /\ UNCHANGED <<subscriptions, procs>>
           ELSE IF InCooldown(sub)
             THEN /\ reply' = Reply("checkStockNow", u, "", "cooldown")
                  /\ UNCHANGED <<subscriptions, procs>>
             ELSE /\ CanLock(mutex)
                  /\ procs["manual"].pc = "idle"
                  /\ subscriptions' = [subscriptions EXCEPT ![u].LastManualCheck = clock]
                  /\ reply' = Reply("checkStockNow", u, "", "checking")
                  /\ procs' = [procs EXCEPT !["manual"] =
                                  [NoProc EXCEPT !.pc = "started", !.user = u]]
    /\ notice' = NoNotice
    /\ UNCHANGED <<clock, cookieExpiry, lastAPICall, apiCallMutex, alive, released>>
    /\ RegistryUntouched
    /\ CycleUntouched

\* The start of a check up to the test of checkCookie. The poller enters
\* CheckTargetStock; an on-demand check reads the recipient's SKUs under the read lock
\* and returns when there are none. checkCookie reads cookieExpiry with no lock held.
checkCookie(p) ==
    /\ alive
    /\ \/ p = "poller" /\ procs[p].pc = "idle"
       \/ p = "manual" /\ procs[p].pc = "started" /\ CanRLock(mutex)
    /\ IF p = "manual" /\ subscriptions[procs[p].user].MonitoredSKUs = {}
         THEN procs' = [procs EXCEPT ![p] = NoProc]
         ELSE procs' = [procs EXCEPT ![p].pc =
                           IF NeedsRefresh(cookieExpiry) THEN "storePreference"
                                                         ELSE "rateLimit"]
    /\ notice' = NoNotice
    /\ reply' = NoReply
    /\ UNCHANGED <<clock, cookieExpiry, lastAPICall, apiCallMutex, alive, released>>
    /\ UNCHANGED subscriptions
    /\ RegistryUntouched
    /\ CycleUntouched

\* bot.refreshCookie() starts in GetUserStorePreference, which asks for the records:
\* GetUserSubscriptions copies the map under the read lock; the records themselves are
\* shared with the registry
GetUserSubscriptions(p) ==
    /\ alive
    /\ procs[p].pc = "storePreference"
    /\ CanRLock(mutex)
    /\ procs' = [procs EXCEPT ![p].pc = "readingStoreCode",
                              ![p].users = {u \in Users : subscriptions[u].exists}]
    /\ notice' = NoNotice
    /\ reply' = NoReply
    /\ UNCHANGED <<clock, cookieExpiry, lastAPICall, apiCallMutex, alive, released>>
    /\ UNCHANGED subscriptions
    /\ RegistryUntouched
    /\ CycleUntouched

\* the loop of GetUserStorePreference reads the StoreCode of the records it was handed,
\* no lock held, and is over; the handshake of refreshCookieWithStore begins
GetUserStorePreference(p) ==
    /\ alive
    /\ procs[p].pc = "readingStoreCode"
    /\ procs' = [procs EXCEPT ![p].pc = "refreshing", ![p].users = {}]
    /\ notice' = NoNotice
    /\ reply' = NoReply
    /\ UNCHANGED <<clock, cookieExpiry, lastAPICall, apiCallMutex, alive, released>>
    /\ UNCHANGED subscriptions
    /\ RegistryUntouched
    /\ CycleUntouched

\* how refreshCookieWithStore can end: with a nil error, with the error of a request
\* that could not be made or sent, or in log.Fatalf on a response to the setPreferences
\* request whose status is not 200
RefreshOutcomes == {"ok", "transportError", "statusNotOK"}

\* bot.refreshCookie() returns to checkCookie, which stores the new expiry or logs the
\* error; log.Fatalf ends the process
refreshCookie(p, outcome, expiry) ==
    /\ alive
    /\ procs[p].pc = "refreshing"
    /\ CASE outcome = "ok" ->
              /\ cookieExpiry' = expiry
              /\ procs' = [procs EXCEPT ![p].pc = "rateLimit"]
              /\ notice' = [kind |-> "refreshed", to |-> 0, at |-> clock]
              /\ UNCHANGED alive
         [] outcome = "transportError" ->
              /\ procs' = [procs EXCEPT ![p].pc = "rateLimit"]
              /\ notice' = [kind |-> "refreshFailed", to |-> 0, at |-> clock]
              /\ UNCHANGED <<cookieExpiry, alive>>
         [] outcome = "statusNotOK" ->
              /\ alive' = FALSE
              /\ notice' = [kind |-> "refreshFailed", to |-> 0, at |-> clock]
              /\ UNCHANGED <<cookieExpiry, procs>>
    /\ reply' = NoReply
    /\ UNCHANGED <<clock, lastAPICall, apiCallMutex, released>>
    /\ UNCHANGED subscriptions
    /\ RegistryUntouched
    /\ CycleUntouched

SleepDuration_None(timeSinceLastCall) == 0

\* sleepDuration := bot.rateLimitDelay - timeSinceLastCall
SleepDuration(timeSinceLastCall) == rateLimitDelay - timeSinceLastCall

\* enforceRateLimit up to its sleep: takes apiCallMutex; when the last call is at least
\* rateLimitDelay back it stamps lastAPICall and returns, else it sleeps with the
\* mutex held
enforceRateLimit(p) ==
    /\ alive
    /\ procs[p].pc = "rateLimit"
    /\ apiCallMutex = "none"
    /\ IF TimeSince(lastAPICall) < rateLimitDelay
         THEN /\ apiCallMutex' = p
              /\ procs' = [procs EXCEPT ![p].pc = "sleeping",
                                        ![p].wakeAt =
                                            clock + SleepDuration(TimeSince(lastAPICall))]
              /\ UNCHANGED <<lastAPICall, released>>
         ELSE /\ lastAPICall' = clock
              /\ released' = clock
              /\ procs' = [procs EXCEPT ![p].pc = "fetching"]
              /\ UNCHANGED apiCallMutex
    /\ notice' = NoNotice
    /\ reply' = NoReply
    /\ UNCHANGED <<clock, cookieExpiry, alive>>
    /\ UNCHANGED subscriptions
    /\ RegistryUntouched
    /\ CycleUntouched

\* time.Sleep is over (it lasts at least sleepDuration): enforceRateLimit stamps
\* lastAPICall, releases apiCallMutex and returns
WakeUp(p) ==
    /\ alive
    /\ procs[p].pc = "sleeping"
    /\ clock >= procs[p].wakeAt
    /\ lastAPICall' = clock
    /\ released' = clock
    /\ apiCallMutex' = "none"
    /\ procs' = [procs EXCEPT ![p].pc = "fetching", ![p].wakeAt = 0]
    /\ notice' = NoNotice
    /\ reply' = NoReply
    /\ UNCHANGED <<clock, cookieExpiry, alive>>
    /\ UNCHANGED subscriptions
    /\ RegistryUntouched
    /\ CycleUntouched

FinishCheck_RecordsResults(p) ==
    /\ alive
    /\ procs[p].pc = "fetching"
    /\ notice' = IF p = "manual"
                   THEN [kind |-> "stockCheckResults", to |-> procs[p].user, at |-> clock]
                   ELSE NoNotice
    /\ procs' = [procs EXCEPT ![p] = NoProc]
    /\ reply' = NoReply
    /\ productStockState' =
         [s \in AllSKUs |->
             IF procs[p].user \in Users /\ s \in subscriptions[procs[p].user].MonitoredSKUs
               THEN [exists |-> TRUE, inStock |-> TRUE]
               ELSE productStockState[s]]
    /\ UNCHANGED <<clock, cookieExpiry, lastAPICall, apiCallMutex, alive, released>>
    /\ UNCHANGED subscriptions
    /\ RegistryUntouched
    /\ UNCHANGED <<productDetails, cycle, lastCycle, events, sent, timezone, now, fn,
                   driver, saver>>

\* the catalog request has been answered (or has failed). An on-demand check sends its
\* results, or that none could be retrieved, with sendStockCheckResults; the poller
\* goes on in CheckTargetStock.
FinishCheck(p) ==
    /\ alive
    /\ procs[p].pc = "fetching"
    /\ notice' = IF p = "manual"
                   THEN [kind |-> "stockCheckResults", to |-> procs[p].user, at |-> clock]
                   ELSE NoNotice
    /\ procs' = [procs EXCEPT ![p] = NoProc]
    /\ reply' = NoReply
    /\ UNCHANGED <<clock, cookieExpiry, lastAPICall, apiCallMutex, alive, released>>
    /\ UNCHANGED subscriptions
    /\ RegistryUntouched
    /\ CycleUntouched

\* time passes
Tock ==
    /\ clock + TockStep <= MaxClock
    /\ clock' = clock + TockStep
    /\ notice' = NoNotice
    /\ reply' = NoReply
    /\ UNCHANGED <<cookieExpiry, lastAPICall, apiCallMutex, procs, alive, released>>
    /\ UNCHANGED subscriptions
    /\ RegistryUntouched
    /\ CycleUntouched

\* a program started without a --timezone flag; the expiry InitBot stored is any the
\* startup refresh can return
InitSession ==
    /\ Constructed
    /\ timezone = LoadLocation("")
    /\ cookieExpiry \in RefreshedExpiries

NextSession ==
    \/ alive /\ setUserLocation(ScenarioUser, "gujarat")
    \/ alive /\ subscribeToProduct(ScenarioUser, ScenarioSKU)
    \/ \E u \in ActiveUsers : checkStockNow(u)
    \/ \E p \in Procs : checkCookie(p)
    \/ \E p \in Procs : GetUserSubscriptions(p)
    \/ \E p \in Procs : GetUserStorePreference(p)
    \/ \E p \in Procs, outcome \in RefreshOutcomes, expiry \in RefreshedExpiries :
          refreshCookie(p, outcome, expiry)
    \/ \E p \in Procs : enforceRateLimit(p)
    \/ \E p \in Procs : WakeUp(p)
    \/ \E p \in Procs : FinishCheck(p)
    \/ Tock

SpecSession == InitSession /\ [][NextSession]_vars

----------------------------------------------------------------------------
(* Properties of the on-demand checks and of the session manager (specification
   SpecSession) *)

\* the wall clock, in minutes, when clock reads c: the process started at StartTime
WallClock(c) == StartTime + c \div 60

\* C12: no outbound message is sent at an instant of quiet hours; here, the notice that
\* completes an on-demand check.
C12_NoNoticeInQuietHours ==
    notice.kind = "stockCheckResults" => ~isQuietHours(timezone, WallClock(notice.at))

\* C17: enforceRateLimit is one gate for the poller and the on-demand checks: a return
\* from it comes at least rateLimitDelay after the return before it, whichever
\* goroutines the two returns belong to.
C17_RateLimitSpacing ==
    [][\A p \in Procs :
          (procs[p].pc \in {"rateLimit", "sleeping"} /\ procs'[p].pc = "fetching") =>
              /\ released' = clock
              /\ released = ZeroTime \/ clock - released >= rateLimitDelay]_vars

\* the poller and an on-demand check have both been let through, the later of them at
\* least rateLimitDelay after the process started
C17_Witness ==
    /\ procs["poller"].pc = "fetching"
    /\ procs["manual"].pc = "fetching"
    /\ released >= rateLimitDelay

\* C18: at most one session refresh is in flight at any time.
C18_OneRefreshInFlight ==
    Cardinality({p \in Procs : procs[p].pc = "refreshing"}) <= 1

\* C19: a failed session refresh never stops the process: the stored expiry keeps its
\* value and the check that asked for the refresh goes on.
C19_RefreshFailureSurvived ==
    [][notice'.kind = "refreshFailed" =>
          /\ alive'
          /\ cookieExpiry' = cookieExpiry
          /\ \E p \in Procs : procs[p].pc = "refreshing" /\ procs'[p].pc = "rateLimit"]_vars

\* C20: right after a successful refresh the stored expiry is at least
\* cookieRefreshMargin after the time of the refresh, so that a check that follows
\* directly does not refresh again.
C20_ExpiryBeyondMargin ==
    notice.kind = "refreshed" =>
        /\ cookieExpiry >= notice.at + cookieRefreshMargin
        /\ ~NeedsRefresh(cookieExpiry)

----------------------------------------------------------------------------
(* The periodic driver: main runs one CheckTargetStock, then creates the ticker and
   calls CheckTargetStock for every tick it receives. The cycle is taken as a whole
   here: it is in flight from the call to the return. *)

\* the most cycles in flight the runs follow
MaxRunning == 2

Receive_Spawns(d) == [d EXCEPT !.ticks = 0, !.running = @ + 1]

\* for range ticker.C { bot.CheckTargetStock(stockBot) }: main takes the tick and is
\* inside the call until it returns
Receive(d) == [pc |-> "inCycle", ticks |-> 0, running |-> d.running + 1]

DriverStep(d) ==
    /\ driver' = d
    /\ reply' = NoReply
    /\ notice' = NoNotice
    /\ UNCHANGED <<subscriptions, mutex, productStockState, productDetails, timezone, now,
                   cycle, lastCycle, events, sent, subscriptionsFile, handler, fn,
                   clock, cookieExpiry, lastAPICall, apiCallMutex, procs, alive, released,
                   saver>>

\* bot.CheckTargetStock(stockBot), the initial check
InitialCheck ==
    /\ driver.pc = "start"
    /\ DriverStep([pc |-> "initialCheck", ticks |-> 0, running |-> driver.running + 1])

\* CheckTargetStock returns to main; after the initial check main creates the ticker
CheckReturns ==
    /\ driver.pc \in {"initialCheck", "inCycle"}
    /\ DriverStep([driver EXCEPT !.pc = "waiting", !.running = @ - 1])

\* the ticker fires: its channel holds one tick, a tick that finds it full is dropped
TickerFires ==
    /\ driver.pc \in {"waiting", "inCycle"}
    /\ DriverStep([driver EXCEPT !.ticks = 1])

\* main, waiting on ticker.C, receives the tick
MainLoopReceives ==
    /\ driver.pc = "waiting"
    /\ driver.ticks = 1
    /\ driver.running < MaxRunning
    /\ DriverStep(Receive(driver))

NextDriver ==
    \/ InitialCheck
    \/ CheckReturns
    \/ TickerFires
    \/ MainLoopReceives
    \/ setUserLocation(ScenarioUser, "gujarat")
    \/ subscribeToProduct(ScenarioUser, ScenarioSKU)
    \/ \E u \in ActiveUsers : checkStockNow(u)
    \/ checkCookie("manual")
    \/ enforceRateLimit("manual")
    \/ FinishCheck("manual")
    \/ Tock

SpecDriver == Init /\ [][NextDriver]_vars

\* C21: periodic cycles are strictly sequential: a cycle starts only when none is in
\* flight, so at most one is in flight at any time; the steps of an on-demand check,
\* which may run next to a cycle, leave productStockState and productDetails alone.
C21_CyclesSequential ==
    [][/\ driver'.running <= 1
       /\ driver'.running > driver.running => driver.running = 0
       /\ procs'["manual"] # procs["manual"] =>
              UNCHANGED <<productStockState, productDetails>>]_vars

\* a tick is waiting in the channel while a cycle and an on-demand check are in flight
C21_Witness ==
    /\ driver.pc = "inCycle"
    /\ driver.running = 1
    /\ driver.ticks = 1
    /\ procs["manual"].pc = "fetching"

\* C30: registry accesses obey the reader/writer lock: while a goroutine is reading
\* fields of the records it was handed, no step of another task writes to one of
\* those records.
C30_NoWriteDuringRead ==
    [][\A p \in Procs, u \in Users :
          (procs[p].pc = "readingStoreCode" /\ u \in procs[p].users)
            => subscriptions'[u] = subscriptions[u]]_vars

----------------------------------------------------------------------------
(* On-demand checks of both recipients over several minutes, next to the commands
   that change what they are subscribed to *)

\* the clock advances by half a cooldown, up to a cooldown and a half
WaitStep == manualCheckCooldown \div 2
MaxWait == 3 * WaitStep

\* time passes
Wait ==
    /\ clock + WaitStep <= MaxWait
    /\ clock' = clock + WaitStep
    /\ notice' = NoNotice
    /\ reply' = NoReply
    /\ UNCHANGED <<cookieExpiry, lastAPICall, apiCallMutex, procs, alive, released>>
    /\ UNCHANGED subscriptions
    /\ RegistryUntouched
    /\ CycleUntouched

NextOnDemand ==
    \/ \E u \in Users : setUserLocation(u, "gujarat")
    \/ \E u \in Users : subscribeToProduct(u, ScenarioSKU)
    \/ \E u \in Users : unsubscribeFromProduct(u, ScenarioSKU)
    \/ \E u \in Users : checkStockNow(u)
    \/ checkCookie("manual")
    \/ enforceRateLimit("manual")
    \/ WakeUp("manual")
    \/ FinishCheck("manual")
    \/ Wait

SpecOnDemand == Init /\ [][NextOnDemand]_vars

\* the command just handled was checkStockNow of recipient u and ended with result
CheckStockNowEnded(u, result) ==
    /\ reply'.kind = "checkStockNow"
    /\ reply'.user = u
    /\ reply'.result = result

\* C22: two accepted on-demand checks of one recipient are at least
\* manualCheckCooldown apart; a request within the cooldown is refused with no goroutine
\* started, no catalog request and LastManualCheck as it was; a request is refused for
\* the cooldown only when the recipient's own last accepted check is that recent.
C22_CooldownPerRecipient ==
    [][\A u \in Users :
          /\ CheckStockNowEnded(u, "checking") =>
                /\ \/ subscriptions[u].LastManualCheck = NoTime
                   \/ clock - subscriptions[u].LastManualCheck >= manualCheckCooldown
                /\ subscriptions'[u].LastManualCheck = clock
          /\ CheckStockNowEnded(u, "cooldown") =>
                /\ UNCHANGED <<subscriptions, procs, lastAPICall>>
                /\ subscriptions[u].LastManualCheck # NoTime
                /\ clock - subscriptions[u].LastManualCheck < manualCheckCooldown]_vars

\* recipient 1 was accepted a second time, a cooldown after the first, while recipient
\* 2, accepted half a cooldown ago, is still in its own cooldown
C22_Witness ==
    /\ reply.kind = "checkStockNow" /\ reply.user = 1 /\ reply.result = "checking"
    /\ clock = manualCheckCooldown
    /\ subscriptions[1].LastManualCheck = clock
    /\ subscriptions[2].LastManualCheck = clock - WaitStep

\* C23: an on-demand check that was accepted ends with a completion notice to the
\* recipient who asked for it.
C23_CheckEndsWithNotice ==
    [][(procs["manual"].pc # "idle" /\ procs'["manual"].pc = "idle") =>
          /\ notice'.kind = "stockCheckResults"
          /\ notice'.to = procs["manual"].user]_vars

\* C24: every change of the registry in memory is written to the persisted document:
\* the document equals the registry (the handlers write it before they return).
C24_DocumentEqualsRegistry == subscriptionsFile = subscriptions

----------------------------------------------------------------------------
(* Restart: NewInteractiveBot has made the empty registry and loads subscriptions.json
   as an earlier run left it; the update loop starts after that *)

\* the records an earlier run can have left for a recipient: none, or a recipient with
\* a location who is subscribed to one product and was or was not notified about it
DocumentRecords ==
    {NoSubscription} \cup
    {[NoSubscription EXCEPT !.exists = TRUE, !.Location = "Gujarat",
                            !.StoreCode = "gujarat",
                            !.MonitoredSKUs = {ScenarioSKU},
                            !.NotificationFrequency = "hourly",
                            !.LastNotification[ScenarioSKU] = notified] :
        notified \in {NoTime, StartTime - 90}}

\* the recipient whose entry holds the ill-typed value of a "typeMismatch" document
MismatchUser == 1

\* subscriptions.json at startup: missing; there but unreadable; not JSON; JSON in
\* which notification_frequency of one entry is a number; or as saveSubscriptions
\* wrote it
Documents ==
    {[kind |-> k, content |-> [u \in Users |-> NoSubscription]] :
        k \in {"missing", "unreadable", "syntaxError"}}
    \cup {[kind |-> "typeMismatch", content |-> c] :
            c \in {d \in [Users -> DocumentRecords] : d[MismatchUser].exists}}
    \cup {[kind |-> "valid", content |-> c] : c \in [Users -> DocumentRecords]}

\* loadSubscriptions: a file that cannot be read leaves the registry empty;
\* json.Unmarshal changes nothing when the text is not JSON, and otherwise fills the
\* map, skipping a value of the wrong type (the field keeps its zero value) and
\* returning an error for it at the end
loadSubscriptions(doc) ==
    CASE doc.kind \in {"missing", "unreadable", "syntaxError"} ->
            [u \in Users |-> NoSubscription]
      [] doc.kind = "typeMismatch" ->
            [doc.content EXCEPT ![MismatchUser].NotificationFrequency = ""]
      [] doc.kind = "valid" -> doc.content

\* NewInteractiveBot from the load on
NewInteractiveBot(doc) ==
    /\ fn = NoFn
    /\ fn' = [op |-> "loadSubscriptions", document |-> doc]
    /\ subscriptions' = loadSubscriptions(doc)
    /\ subscriptionsFile' = doc.content
    /\ reply' = NoReply
    /\ UNCHANGED <<mutex, handler, timezone, now>>
    /\ PollerUntouched

\* go interactiveBot.Start() comes after NewInteractiveBot has returned
NextRestart ==
    \/ \E doc \in Documents : NewInteractiveBot(doc)
    \/ fn # NoFn /\ \E u \in Users : subscribeToProduct(u, ScenarioSKU)
    \/ fn # NoFn /\ \E u \in Users : unsubscribeFromProduct(u, ScenarioSKU)
    \/ fn # NoFn /\ \E u \in Users, frequency \in {"daily"} :
                       setNotificationFrequency(u, frequency)

SpecRestart == Init /\ [][NextRestart]_vars

\* C25: a document that is missing or cannot be decoded leaves startup with an empty
\* registry and a running process.
C25_BadDocumentStartsEmpty ==
    [][(fn = NoFn /\ fn' # NoFn /\ fn'.document.kind # "valid") =>
          /\ alive'
          /\ \A u \in Users : ~subscriptions'[u].exists]_vars

----------------------------------------------------------------------------
(* Delivery failures and the cycle (specification SpecDispatch) *)

\* C27: a delivery that fails does not abort the cycle: the dispatcher call returns to
\* CheckTargetStock and every subscriber that is due a message gets its attempt.
C27_FailureDoesNotAbortCycle ==
    fn.op = "Dispatch" =>
        ((\E i \in 1..Len(fn.result.sent) : ~fn.result.sent[i].delivered) =>
            /\ ~fn.result.blocked
            /\ \A u \in Users : Due(u) => Attempts(u) # <<>>)

----------------------------------------------------------------------------
(* The configuration parser and the gateway call applied to bounded inputs *)

\* strings are sequences of characters; the longest raw SKU list of the runs
MaxLen == 5
Chars == {"A", "B", "C", ",", " "}
Strings == UNION {[1..n -> Chars] : n \in 0..MaxLen}

\* strings.SplitSeq(s, ","): the pieces of s between the commas, in order; a string
\* without a comma is its only piece
RECURSIVE SplitSeq(_)
SplitSeq(s) ==
    IF \A k \in 1..Len(s) : s[k] # "," THEN <<s>>
    ELSE LET c == CHOOSE k \in 1..Len(s) :
                     s[k] = "," /\ \A h \in 1..(k - 1) : s[h] # ","
         IN  <<SubSeq(s, 1, c - 1)>> \o SplitSeq(SubSeq(s, c + 1, Len(s)))

TrimSpace_LeadingOnly(s) ==
    IF \A k \in 1..Len(s) : s[k] = " " THEN <<>>
    ELSE LET i == CHOOSE k \in 1..Len(s) : s[k] # " " /\ \A h \in 1..(k - 1) : s[h] = " "
         IN  SubSeq(s, i, Len(s))

\* strings.TrimSpace(s): s without its leading and trailing white space
TrimSpace(s) ==
    IF \A k \in 1..Len(s) : s[k] = " " THEN <<>>
    ELSE LET i == CHOOSE k \in 1..Len(s) : s[k] # " " /\ \A h \in 1..(k - 1) : s[h] = " "
             j == CHOOSE k \in 1..Len(s) :
                     s[k] # " " /\ \A h \in (k + 1)..Len(s) : s[h] = " "
         IN  SubSeq(s, i, j)

\* parseSKUsToBeMonitored(monitoredSKUsRaw): the keys of the map it returns
parseSKUsToBeMonitored(monitoredSKUsRaw) ==
    LET pieces == SplitSeq(monitoredSKUsRaw)
    IN  {TrimSpace(pieces[k]) : k \in 1..Len(pieces)} \ {<<>>}

ApplyParseSKUsToBeMonitored(raw) ==
    /\ fn = NoFn
    /\ fn' = [op |-> "parseSKUsToBeMonitored", raw |-> raw,
              result |-> parseSKUsToBeMonitored(raw)]
    /\ UNCHANGED <<subscriptions, mutex, productStockState, productDetails, timezone, now,
                   cycle, lastCycle, events, sent, subscriptionsFile, handler, reply>>
    /\ UNCHANGED sessionVars

\* http.StatusOK
StatusOK == 200
\* what the gateway can answer: how the exchange went, the status, the body
StatusCodes == {StatusOK, 400, 403, 429, 500}
Bodies == {"{\"ok\":true}", "{\"ok\":false}", "{}", "{\"ok\":\"true\"}", "null", "[]",
           "<html>", ""}
Responses ==
    [transport : {"answered", "requestFailed", "bodyUnreadable"},
     status : StatusCodes, body : Bodies]

\* json.Unmarshal(body, &telegramResponse) into a map[string]any, and what
\* telegramResponse["ok"].(bool) then yields: text that is no JSON object is an error,
\* null is the nil map
Unmarshal(body) ==
    [err |-> body \in {"[]", "<html>", ""},
     exists |-> body \in {"{\"ok\":true}", "{\"ok\":false}"},
     ok |-> body = "{\"ok\":true}"]

\* sendTelegramNotification(message, appConfig) of package bot, token and chat id
\* configured: "nil" or "error"
sendTelegramNotification(quiet, response) ==
    IF quiet THEN "nil"
    ELSE IF response.transport # "answered" THEN "error"
    ELSE IF response.status # StatusOK THEN "error"
    ELSE LET telegramResponse == Unmarshal(response.body)
         IN  IF telegramResponse.err THEN "nil"
             ELSE IF ~telegramResponse.exists \/ ~telegramResponse.ok THEN "error"
             ELSE "nil"

ApplySendTelegramNotification(quiet, response) ==
    /\ fn = NoFn
    /\ fn' = [op |-> "sendTelegramNotification", quiet |-> quiet, response |-> response,
              result |-> sendTelegramNotification(quiet, response)]
    /\ UNCHANGED <<subscriptions, mutex, productStockState, productDetails, timezone, now,
                   cycle, lastCycle, events, sent, subscriptionsFile, handler, reply>>
    /\ UNCHANGED sessionVars

NextPure ==
    \/ \E raw \in Strings : ApplyParseSKUsToBeMonitored(raw)
    \/ \E quiet \in BOOLEAN, response \in Responses :
          ApplySendTelegramNotification(quiet, response)

SpecPure == Init /\ [][NextPure]_vars

\* C28: an attempt is reported as successful (nil) only when the gateway answered with
\* status 200 and a body that says ok = true.
C28_SuccessNeedsExplicitOk ==
    (fn.op = "sendTelegramNotification" /\ ~fn.quiet /\ fn.result = "nil") =>
        /\ fn.response.transport = "answered"
        /\ fn.response.status = StatusOK
        /\ fn.response.body = "{\"ok\":true}"

\* raw[i..j] is a token of raw: it has no comma, it neither starts nor ends with a
\* blank, and between it and the nearest comma (or end of raw) on either side there
\* are only blanks
TokenAt(raw, i, j) ==
    /\ i <= j
    /\ raw[i] # " " /\ raw[j] # " "
    /\ \A k \in i..j : raw[k] # ","
    /\ \A k \in 1..(i - 1) : (\A h \in k..(i - 1) : raw[h] # ",") => raw[k] = " "
    /\ \A k \in (j + 1)..Len(raw) : (\A h \in (j + 1)..k : raw[h] # ",") => raw[k] = " "

\* the tokens of raw, each once
Tokens(raw) ==
    {SubSeq(raw, p[1], p[2]) :
        p \in {q \in (1..Len(raw)) \X (1..Len(raw)) : TokenAt(raw, q[1], q[2])}}

\* C29: parseSKUsToBeMonitored returns exactly the set of the distinct, trimmed,
\* non-empty tokens of the comma-separated string; three distinct SKUs give a set of
\* size 3.
C29_ParsedSKUs ==
    fn.op = "parseSKUsToBeMonitored" =>
        /\ fn.result = Tokens(fn.raw)
        /\ fn.raw = <<"A", ",", "B", ",", "C">> => Cardinality(fn.result) = 3

\* a list with a blank token and a SKU given twice, once with a blank after it
C29_Witness ==
    /\ fn.op = "parseSKUsToBeMonitored"
    /\ fn.raw = <<"A", " ", ",", ",", "A">>
    /\ fn.result = {<<"A">>}

----------------------------------------------------------------------------
(* The registry lock during a dispatch (specification Spec) *)

\* C31: whenever the dispatcher delivers a message to an eligible subscriber,
\* SendStockNotificationToSubscribers returns and releases the registry lock: the
\* cycle that sent the message ends, nothing is left waiting for the lock, and later
\* commands and cycles can still acquire it.
C31_DispatcherReturns ==
    [][(CycleStep /\ sent' # <<>>) =>
          /\ cycle' = NoCycle
          /\ mutex' = mutex
          /\ CanLock(mutex') /\ CanRLock(mutex')]_vars

----------------------------------------------------------------------------
(* Persistence step by step (specification SpecSave): a command of the update loop
   changes the registry under the write lock, releases it and calls saveSubscriptions,
   which takes the read lock, serialises the registry, writes the document and releases
   the read lock when it returns. UpdateLastNotification is the only other caller
   (go ib.saveSubscriptions()), and it is called by the dispatcher alone. *)

SaveFrequencies == {"hourly", "daily", "bogus"}

\* setNotificationFrequency from the frequency test to the call of saveSubscriptions
setNotificationFrequencyLocked(u, frequency) ==
    /\ handler = "idle"
    /\ saver = NoSaver
    /\ IF frequency \notin freqMap
         THEN /\ reply' = Reply("setNotificationFrequency", u, "", "invalidFrequency")
              /\ UNCHANGED <<subscriptions, handler, saver>>
         ELSE /\ CanLock(mutex)
              /\ subscriptions' =
                   [subscriptions EXCEPT ![u] =
                      IF ~@.exists
                        THEN [NoSubscription EXCEPT !.exists = TRUE,
                                                    !.NotificationFrequency = frequency]
                        ELSE [@ EXCEPT !.NotificationFrequency = frequency]]
              /\ handler' = "saveSubscriptions"
              /\ saver' = [NoSaver EXCEPT !.pc = "called"]
              /\ reply' = NoReply
    /\ UNCHANGED <<mutex, subscriptionsFile, timezone, now, fn>>
    /\ UNCHANGED <<productStockState, productDetails, cycle, lastCycle, events, sent>>
    /\ UNCHANGED <<clock, cookieExpiry, lastAPICall, apiCallMutex, procs, alive,
                   released, notice, driver>>

\* a step of saveSubscriptions leaves everything but the lock, the document and the
\* position of the call alone
SaveFrame ==
    /\ UNCHANGED <<subscriptions, timezone, now, fn>>
    /\ UNCHANGED <<productStockState, productDetails, cycle, lastCycle, events, sent>>
    /\ UNCHANGED <<clock, cookieExpiry, lastAPICall, apiCallMutex, procs, alive,
                   released, notice, driver>>

\* saveSubscriptions: RLock, defer RUnlock, json.MarshalIndent(ib.subscriptions)
saveSubscriptionsMarshal ==
    /\ saver.pc = "called"
    /\ CanRLock(mutex)
    /\ mutex' = [mutex EXCEPT !.readers = @ + 1]
    /\ saver' = [pc |-> "marshalled", data |-> subscriptions]
    /\ reply' = NoReply
    /\ UNCHANGED <<subscriptionsFile, handler>>
    /\ SaveFrame

WriteFile_Keeps(document, data, written) == document

\* os.WriteFile("subscriptions.json", data, 0644): the document is replaced by the
\* data, or the write fails and is logged
WriteFile(document, data, written) == IF written THEN data ELSE document

\* saveSubscriptions: the write of the document
saveSubscriptionsWriteFile(written) ==
    /\ saver.pc = "marshalled"
    /\ subscriptionsFile' = WriteFile(subscriptionsFile, saver.data, written)
    /\ saver' = [saver EXCEPT !.pc = IF written THEN "written" ELSE "failed"]
    /\ reply' = NoReply
    /\ UNCHANGED <<mutex, handler>>
    /\ SaveFrame

\* saveSubscriptions returns: the deferred RUnlock runs, and the command sends its
\* confirmation
saveSubscriptionsReturn ==
    /\ saver.pc \in {"written", "failed"}
    /\ mutex' = [mutex EXCEPT !.readers = @ - 1]
    /\ saver' = NoSaver
    /\ handler' = "idle"
    /\ reply' = [kind |-> "setNotificationFrequency", user |-> 0, sku |-> "",
                 result |-> "ok", before |-> {}]
    /\ UNCHANGED subscriptionsFile
    /\ SaveFrame

NextSave ==
    \/ \E u \in Users, frequency \in SaveFrequencies :
          setNotificationFrequencyLocked(u, frequency)
    \/ saveSubscriptionsMarshal
    \/ \E written \in BOOLEAN : saveSubscriptionsWriteFile(written)
    \/ saveSubscriptionsReturn

SpecSave == Init /\ [][NextSave]_vars

\* C32: no task holds the registry lock, in read or in write mode, while the write of
\* the document to disk is performed.
C32_NoLockDuringWrite ==
    [][(saver.pc = "marshalled" /\ saver'.pc \in {"written", "failed"}) =>
          mutex = MutexFree]_vars

----------------------------------------------------------------------------
(* The stock records under the poll cycle, the dispatch and the on-demand checks
   together (specification SpecStock) *)

NextStock ==
    \/ setUserLocation(ScenarioUser, "gujarat")
    \/ subscribeToProduct(ScenarioUser, ScenarioSKU)
    \/ StartCycle
    \/ FetchFailed
    \/ \E data \in Snapshots, skuOrd \in Orders(cycle.monitored),
          ord \in Orders({u \in Users : subscriptions[u].exists}) :
          FinishCycle(data, skuOrd, ord)
    \/ checkStockNow(ScenarioUser)
    \/ checkCookie("manual")
    \/ enforceRateLimit("manual")
    \/ WakeUp("manual")
    \/ FinishCheck("manual")
    \/ Wait

SpecStock == Init /\ [][NextStock]_vars

\* an on-demand check has just delivered its results while a stock record written by
\* an earlier cycle, which dispatched an event, is in place
C33_Witness ==
    /\ notice.kind = "stockCheckResults"
    /\ productStockState[ScenarioSKU] = [exists |-> TRUE, inStock |-> TRUE]

\* C33: a stock record is written only by the diff of the periodic cycle: a record
\* changes only in a step of a cycle that got a snapshot, only for a target SKU and
\* only to what the snapshot says; the dispatch of that step adds nothing to it, and
\* the steps of an on-demand check leave every stock record unchanged.
C33_StockRecordOnlyByCycle ==
    [][/\ \A sku \in AllSKUs :
             productStockState'[sku] # productStockState[sku] =>
                /\ CycleStep
                /\ sku \in cycle.monitored
                /\ productStockState'[sku].exists
                /\ productStockState'[sku].inStock => AvailableIn(lastCycle'.snapshot, sku)
       /\ procs' # procs => productStockState' = productStockState]_vars

----------------------------------------------------------------------------
(* The views that show the stock of a product (specification SpecView). The update
   loop runs sendProductDetails and sendUserStatus; both read Bot.productDetails, the
   map CheckTargetStock writes on main's goroutine, after they have released the
   registry lock and with no other lock held. *)

\* the stock line of a view: productDetails[sku] if the key exists
StockStatus(details, sku) ==
    IF ~details[sku].exists THEN "checking"
    ELSE IF details[sku].Available = 1 THEN "inStock" ELSE "outOfStock"

\* a view leaves the registry, the document and the poller alone
ViewFrame ==
    /\ UNCHANGED <<subscriptions, subscriptionsFile, mutex, timezone, now, fn>>
    /\ UNCHANGED <<productStockState, productDetails, cycle, lastCycle, events, sent>>
    /\ UNCHANGED <<clock, cookieExpiry, lastAPICall, apiCallMutex, procs, released,
                   notice, driver, saver>>

\* sendProductDetails(userID, sku) up to the read of productDetails
sendProductDetails(u, sku) ==
    /\ handler = "idle"
    /\ IF sku \notin availableProducts
         THEN /\ reply' = Reply("sendProductDetails", u, sku, "productNotFound")
              /\ UNCHANGED handler
         ELSE /\ CanRLock(mutex)
              /\ handler' = "sendProductDetails"
              /\ reply' = NoReply
    /\ UNCHANGED alive
    /\ ViewFrame

\* sendUserStatus(userID) up to the read of productDetails
sendUserStatus(u) ==
    /\ handler = "idle"
    /\ CanRLock(mutex)
    /\ IF ~subscriptions[u].exists \/ subscriptions[u].MonitoredSKUs = {}
         THEN /\ reply' = Reply("sendUserStatus", u, "", "noSubscriptions")
              /\ UNCHANGED handler
         ELSE /\ handler' = "sendUserStatus"
              /\ reply' = NoReply
    /\ UNCHANGED alive
    /\ ViewFrame

\* what a read of the map can do: hand out a value, or, when the Go runtime detects
\* the write of another goroutine during the read, end the process ("fatal error:
\* concurrent map read and map write")
ReadOutcomes == {"value", "fatal"}

\* the map was written by a cycle step since the view began
WrittenMeanwhile ==
    /\ CycleRan
    /\ \E sku \in lastCycle.monitored : PresentIn(lastCycle.snapshot, sku)

\* the read of productDetails[sku] and the rest of the view
ReadProductDetails(u, sku, outcome) ==
    /\ handler \in {"sendProductDetails", "sendUserStatus"}
    /\ IF outcome = "fatal"
         THEN /\ WrittenMeanwhile
              /\ alive' = FALSE
              /\ reply' = NoReply
              /\ UNCHANGED handler
         ELSE /\ handler' = "idle"
              /\ reply' = Reply(handler, u, sku, StockStatus(productDetails, sku))
              /\ UNCHANGED alive
    /\ ViewFrame

NextView ==
    \/ alive /\ setUserLocation(ScenarioUser, "gujarat")
    \/ alive /\ subscribeToProduct(ScenarioUser, ScenarioSKU)
    \/ alive /\ \E sku \in AllSKUs : sendProductDetails(ScenarioUser, sku)
    \/ alive /\ sendUserStatus(ScenarioUser)
    \/ alive /\ \E outcome \in ReadOutcomes :
                   ReadProductDetails(ScenarioUser, ScenarioSKU, outcome)
    \/ alive /\ StartCycle
    \/ alive /\ FetchFailed
    \/ alive /\ \E data \in Snapshots, skuOrd \in Orders(cycle.monitored),
                   ord \in Orders({u \in Users : subscriptions[u].exists}) :
                   FinishCycle(data, skuOrd, ord)
    \/ alive /\ Tick

SpecView == Init /\ [][NextView]_vars

\* C34: the maps of the poller are never read by a task that handles a request (the
\* product details view, the status view) at the same time as the cycle writes them.
C34_NoReadDuringWrite ==
    [][(CycleStep /\ productDetails' # productDetails) =>
          handler \notin {"sendProductDetails", "sendUserStatus"}]_vars

----------------------------------------------------------------------------
(* The expiry a refresh records (specification SpecSession) *)

\* C35: a refresh whose expiry attribute does not parse does not fail and records the
\* refresh time plus 24 hours; after any successful refresh the recorded expiry is a
\* time later than the refresh time.
C35_ExpiryAfterRefreshTime ==
    notice.kind = "refreshed" => cookieExpiry > notice.at

----------------------------------------------------------------------------
(* The default frequency (specification SpecOnDemand, whose recipients never choose
   a frequency) *)

\* C36: after setUserLocation has completed for a recipient who never chose a
\* frequency, the recipient's frequency is the default "every_30_minutes", whatever
\* preceded the command, an earlier subscribe turned down for the missing location
\* included.
C36_DefaultFrequencyAfterLocation ==
    [][(reply'.kind = "setUserLocation" /\ reply'.result = "ok") =>
          subscriptions'[reply'.user].NotificationFrequency = "every_30_minutes"]_vars

----------------------------------------------------------------------------
(* Who is sent a notification (specification Spec) *)

\* the cycle step just taken called the dispatcher for a SKU that its only recipient
\* had left after the cycle read its target set, and sent a message about another
C37_Witness ==
    /\ CycleRan
    /\ sent # <<>>
    /\ \E i \in 1..Len(events) :
          \A u \in Users : events[i].sku \notin subscriptions[u].MonitoredSKUs

\* C37: a notification about a product is sent to a recipient only if the product is
\* in the recipient's subscribed set at the moment of sending, also when commands
\* subscribe and unsubscribe between the steps of the cycle.
C37_SentOnlyToSubscribers ==
    [][\A k \in 1..Len(sent') :
          /\ subscriptions[sent'[k].to].exists
          /\ sent'[k].sku \in subscriptions[sent'[k].to].MonitoredSKUs]_vars

\* C38: a withheld in-stock notification is not lost: when a product that an earlier
\* cycle recorded in stock without notifying is still available, a cycle outside
\* quiet hours sends a notification about it to every recipient who is subscribed to
\* it and whose minimum interval has elapsed.
C38_WithheldIsSentLater ==
    [][\A u \in Users, sku \in AllSKUs :
          (/\ CycleStep
           /\ sku \in cycle.monitored
           /\ RecordedTrue(productStockState[sku])
           /\ AvailableIn(lastCycle'.snapshot, sku)
           /\ Eligible(u, sku)
           /\ ~isQuietHours(timezone, now)) =>
              \E k \in 1..Len(sent') : sent'[k].to = u /\ sent'[k].sku = sku]_vars

====
